---- MODULE Spec2Model ----
(***************************************************************************)
(* Model of the trading-signals dashboard: the TradingDashboard component  *)
(* (components/trading-dashboard.tsx) and the two feed adapters            *)
(* setupWebSocket / setupMockWebSocket (lib/socket.ts).                    *)
(*                                                                         *)
(* Time is counted in units of 1000 ms: every delay of the code (the       *)
(* connection delay, the update frequencies, the 5000 ms rate limit) is a  *)
(* multiple of it.  JavaScript numbers are modelled as exact fractions     *)
(* n/d, with d = 0 for the non-finite values (n = 1: Infinity, n = -1:     *)
(* -Infinity, n = 0: NaN); rounding and the sign of zero are left out.     *)
(***************************************************************************)
EXTENDS Integers, Sequences, FiniteSets, TLC

VARIABLES
    now,               \* Date.now(), in units of 1000 ms
    mounted,           \* the component is mounted
    selectedStock,     \* useState: string | null
    timeframe,         \* useState: string
    useMockData,       \* useState: boolean
    connected,         \* useState: boolean
    signal,            \* useState: Signal | null
    signalHistory,     \* useState: Signal[]
    trades,            \* useState: Trade[]
    profit,            \* useState: number
    profitPercent,     \* useState: number
    initialInvestment, \* useState: number
    priceHistory,      \* useState: {price, timestamp}[]
    stockData,         \* useState: StockData | null
    depsChanged,       \* a dependency of the effect changed since it last ran
    cleanup,           \* the subscription whose cleanup the effect holds (0: none)
    subs,              \* every subscription set up so far, in order of creation
    userOps,           \* number of user operations so far
    delivered,         \* number of onMessage calls so far
    nonHoldLog,        \* the non-HOLD signals delivered since the last stock selection
    call               \* the pending calculateProfit call of the ledger harness

vars == <<now, mounted, selectedStock, timeframe, useMockData, connected, signal,
          signalHistory, trades, profit, profitPercent, initialInvestment,
          priceHistory, stockData, depsChanged, cleanup, subs, userOps, delivered,
          nonHoldLog, call>>

NULL == "null"

\* the absent values of the typed state: no Signal, no StockData, no number
NoSignal == [type |-> NULL, price |-> 0, timestamp |-> 0]

NoStockData == [currentPrice |-> 0]

Undefined == -1

-----------------------------------------------------------------------------
(* Bounds of the model *)

MaxTime == 4
MaxSubs == 2
MaxUserOps == 2
MaxDelivered == MaxTime
MaxLogLen == 3

Stocks == {"AAPL"}
Timeframes == {"5m", "1d"}
PriceTape == <<100, 120, 110>>
LedgerPrices == {100, 110, 120}
Quantities == {1, 2}

-----------------------------------------------------------------------------
(* JavaScript numbers *)

Abs(i) == IF i < 0 THEN -i ELSE i

Sgn(i) == IF i < 0 THEN -1 ELSE IF i > 0 THEN 1 ELSE 0

RECURSIVE GCD(_, _)
GCD(a, b) == IF b = 0 THEN a ELSE GCD(b, a % b)

Norm(n, d) ==
    IF d = 0 THEN [n |-> Sgn(n), d |-> 0]
    ELSE LET g == GCD(Abs(n), Abs(d))
         IN  [n |-> (Sgn(d) * n) \div g, d |-> Abs(d) \div g]

N(i) == [n |-> i, d |-> 1]

Infinity == [n |-> 1, d |-> 0]

NaN == [n |-> 0, d |-> 0]

IsFinite(x) == x.d > 0

NNeg(x) == [n |-> -x.n, d |-> x.d]

NAdd(x, y) ==
    IF x.d = 0 /\ y.d = 0
    THEN IF x.n = y.n THEN x ELSE NaN
    ELSE Norm(x.n * y.d + y.n * x.d, x.d * y.d)

NSub(x, y) == NAdd(x, NNeg(y))

NMul(x, y) == Norm(x.n * y.n, x.d * y.d)

NDiv(x, y) ==
    IF x.d = 0 /\ y.d > 0
    THEN [n |-> IF y.n < 0 THEN -x.n ELSE x.n, d |-> 0]
    ELSE Norm(x.n * y.d, x.d * y.n)

-----------------------------------------------------------------------------
(* The position ledger: calculateProfit *)

Trade(type, price, timestamp, quantity) ==
    [type |-> type, price |-> price, timestamp |-> timestamp, quantity |-> quantity]

\* the locals of calculateProfit before the first trade is replayed
LedgerStart ==
    [currentProfit |-> N(0), position |-> 0, averageEntryPrice |-> N(0),
     totalInvested |-> 0, totalReturned |-> 0]

\* ReplayTrade with the average taken over the new purchase and the old average,
\* not weighted by the shares held
ReplayTradeUnweighted(l, trade) ==
    IF trade.type = "BUY"
    THEN [l EXCEPT !.totalInvested = @ + trade.price * trade.quantity,
                   !.averageEntryPrice =
                       IF l.position = 0 THEN N(trade.price)
                       ELSE NDiv(NAdd(@, N(trade.price)), N(2)),
                   !.position = @ + trade.quantity]
    ELSE IF trade.type = "SELL"
    THEN [l EXCEPT !.totalReturned = @ + trade.price * trade.quantity,
                   !.currentProfit =
                       NAdd(@, NSub(N(trade.price * trade.quantity),
                                    NMul(l.averageEntryPrice, N(trade.quantity)))),
                   !.position = @ - trade.quantity]
    ELSE l

\* one iteration of tradeList.forEach
ReplayTrade(l, trade) ==
    IF trade.type = "BUY"
    THEN LET newShares == trade.quantity
             newCost == trade.price * newShares
             totalShares == l.position + newShares
         IN  [l EXCEPT !.totalInvested = @ + newCost,
                       !.averageEntryPrice =
                           NDiv(NAdd(NMul(@, N(l.position)), N(newCost)), N(totalShares)),
                       !.position = @ + newShares]
    ELSE IF trade.type = "SELL"
    THEN LET saleValue == trade.price * trade.quantity
             costBasis == NMul(l.averageEntryPrice, N(trade.quantity))
         IN  [l EXCEPT !.totalReturned = @ + saleValue,
                       !.currentProfit = NAdd(@, NSub(N(saleValue), costBasis)),
                       !.position = @ - trade.quantity]
    ELSE l

\* the locals of calculateProfit after tradeList.forEach
RECURSIVE Replay(_)
Replay(tradeList) ==
    IF tradeList = <<>> THEN LedgerStart
    ELSE ReplayTrade(Replay(SubSeq(tradeList, 1, Len(tradeList) - 1)),
                     tradeList[Len(tradeList)])

\* HoldsPosition that takes a single share for no position
HoldsPositionOffByOne(position) == position > 1

\* the unrealized profit/loss is added while a position is held
HoldsPosition(position) == position > 0

\* the values calculateProfit passes to setProfit and setProfitPercent
calculateProfit(tradeList, currentPrice, investment) ==
    LET l == Replay(tradeList)
        unrealizedPL == NMul(NSub(N(currentPrice), l.averageEntryPrice), N(l.position))
        currentProfit == IF HoldsPosition(l.position)
                         THEN NAdd(l.currentProfit, unrealizedPL)
                         ELSE l.currentProfit
        totalValue == l.totalReturned + l.position * currentPrice
        totalCost == investment
        profitPercentage == NMul(NDiv(N(totalValue - totalCost), N(totalCost)), N(100))
    IN  [profit |-> currentProfit, profitPercent |-> profitPercentage]

-----------------------------------------------------------------------------
(* The simulated feed's signal generator: generateSignal *)

\* the minimum distance of two signals, 5000 ms
RateLimit == 5

\* Math.random() in hundredths: 15% BUY, 15% SELL, 70% HOLD
BuyBelow == 15

SellBelow == 30

Randoms == {0, 14, 15, 29, 30, 99}

\* a JavaScript number used as a condition: undefined and 0 are falsy
Truthy(t) == t # Undefined /\ t # 0

\* RateLimited with a limit one second short
RateLimitedShort(lastSignalTime, dateNow) ==
    Truthy(lastSignalTime) /\ dateNow - lastSignalTime < RateLimit - 1

RateLimited(lastSignalTime, dateNow) ==
    Truthy(lastSignalTime) /\ dateNow - lastSignalTime < RateLimit

\* Classify with the thresholds included, random <= 0.15 and random <= 0.3
ClassifyInclusive(random) ==
    IF random <= BuyBelow THEN "BUY"
    ELSE IF random <= SellBelow THEN "SELL"
    ELSE "HOLD"

Classify(random) ==
    IF random < BuyBelow THEN "BUY"
    ELSE IF random < SellBelow THEN "SELL"
    ELSE "HOLD"

\* Repeats that lets a HOLD follow a HOLD
RepeatsExceptHold(lastSignal, signalType) ==
    lastSignal # NoSignal /\ signalType = lastSignal.type /\ signalType # "HOLD"

Repeats(lastSignal, signalType) ==
    lastSignal # NoSignal /\ signalType = lastSignal.type

generateSignal(data, lastSignal, lastSignalTime, random, dateNow) ==
    IF RateLimited(lastSignalTime, dateNow) THEN NoSignal
    ELSE IF Repeats(lastSignal, Classify(random)) THEN NoSignal
    ELSE [type |-> Classify(random), price |-> data.currentPrice, timestamp |-> dateNow]

\* the caller of generateSignal keeps the signal returned, if any, and its timestamp
Remembered(sig, lastSignal) == IF sig # NoSignal THEN sig ELSE lastSignal

RememberedTime(sig, lastSignalTime) == IF sig # NoSignal THEN sig.timestamp ELSE lastSignalTime

\* the price of the k-th tick a feed delivers: the random step of
\* generateMockStockData and the server's prices are replaced by one price path
PriceAt(k) == PriceTape[((k - 1) % Len(PriceTape)) + 1]

\* the delay of the simulated connection, 1000 ms
ConnectDelay == 1

\* the interval of the simulated feed for a timeframe
updateFrequency(tf) ==
    CASE tf = "5m" -> 1
      [] tf = "30m" -> 2
      [] tf = "4h" -> 3
      [] tf = "1d" -> 5
      [] OTHER -> 1

-----------------------------------------------------------------------------
(* The component: state, handlers and the feed subscription effect *)

HistoryCap == 100

\* LastN that keeps the oldest entries, prev.slice(0, 100)
LastNKeepsOldest(s, n) == IF Len(s) <= n THEN s ELSE SubSeq(s, 1, n)

\* prev.slice(-100)
LastN(s, n) == IF Len(s) <= n THEN s ELSE SubSeq(s, Len(s) - n + 1, Len(s))

\* the trade the component makes of a signal: always one share at the tick's price
NewTrade(sig, data, dateNow) == Trade(sig.type, data.currentPrice, dateNow, 1)

\* Executes that trades on BUY signals only
ExecutesBuyOnly(sig) == sig.type = "BUY"

\* Executes that trades on every signal
ExecutesAll(sig) == TRUE

\* only BUY and SELL signals are executed
Executes(sig) == sig.type # "HOLD"

\* no call of the ledger harness
NoCall == [tradeList |-> <<>>, currentPrice |-> 0, done |-> FALSE, locals |-> LedgerStart]

Init ==
    /\ now = 0
    /\ mounted = TRUE
    /\ selectedStock = NULL
    /\ timeframe = "5m"
    /\ useMockData = TRUE
    /\ connected = FALSE
    /\ signal = NoSignal
    /\ signalHistory = <<>>
    /\ trades = <<>>
    /\ profit = N(0)
    /\ profitPercent = N(0)
    /\ initialInvestment = 10000
    /\ priceHistory = <<>>
    /\ stockData = NoStockData
    /\ depsChanged = FALSE
    /\ cleanup = 0
    /\ subs = <<>>
    /\ userOps = 0
    /\ delivered = 0
    /\ nonHoldLog = <<>>
    /\ call = NoCall

feedVars == <<now, subs, cleanup, delivered>>

harnessVars == <<initialInvestment, call>>

\* handleStockSelect that does not clear the signal history
handleStockSelectKeepsHistory(symbol) ==
    /\ mounted
    /\ userOps < MaxUserOps
    /\ userOps' = userOps + 1
    /\ selectedStock' = symbol
    /\ trades' = <<>>
    /\ profit' = N(0)
    /\ profitPercent' = N(0)
    /\ priceHistory' = <<>>
    /\ signal' = NoSignal
    /\ depsChanged' = TRUE
    /\ nonHoldLog' = <<>>
    /\ UNCHANGED <<mounted, timeframe, useMockData, connected, stockData, signalHistory,
                   now, subs, cleanup, delivered, initialInvestment, call>>

\* handleStockSelect that does not reset the published profit
handleStockSelectKeepsProfit(symbol) ==
    /\ mounted
    /\ userOps < MaxUserOps
    /\ userOps' = userOps + 1
    /\ selectedStock' = symbol
    /\ trades' = <<>>
    /\ priceHistory' = <<>>
    /\ signalHistory' = <<>>
    /\ signal' = NoSignal
    /\ depsChanged' = TRUE
    /\ nonHoldLog' = <<>>
    /\ UNCHANGED <<mounted, timeframe, useMockData, connected, stockData, profit,
                   profitPercent, now, subs, cleanup, delivered, initialInvestment, call>>

\* handleStockSelect(symbol); setTrades([]) is a new array, so the effect re-runs
handleStockSelect(symbol) ==
    /\ mounted
    /\ userOps < MaxUserOps
    /\ userOps' = userOps + 1
    /\ selectedStock' = symbol
    /\ trades' = <<>>
    /\ profit' = N(0)
    /\ profitPercent' = N(0)
    /\ priceHistory' = <<>>
    /\ signalHistory' = <<>>
    /\ signal' = NoSignal
    /\ depsChanged' = TRUE
    /\ nonHoldLog' = <<>>
    /\ UNCHANGED <<mounted, timeframe, useMockData, connected, stockData>>
    /\ UNCHANGED feedVars
    /\ UNCHANGED harnessVars

\* handleTimeframeSelect(newTimeframe); the selector is rendered once a stock is selected
handleTimeframeSelect(newTimeframe) ==
    /\ mounted
    /\ selectedStock # NULL
    /\ userOps < MaxUserOps
    /\ userOps' = userOps + 1
    /\ timeframe' = newTimeframe
    /\ priceHistory' = <<>>
    /\ signalHistory' = <<>>
    /\ depsChanged' = (depsChanged \/ newTimeframe # timeframe)
    /\ UNCHANGED <<mounted, selectedStock, useMockData, connected, signal, trades,
                   profit, profitPercent, stockData, nonHoldLog>>
    /\ UNCHANGED feedVars
    /\ UNCHANGED harnessVars

\* toggleDataSource(); its badge is rendered once a stock is selected and data has arrived
toggleDataSource ==
    /\ mounted
    /\ selectedStock # NULL
    /\ stockData # NoStockData
    /\ userOps < MaxUserOps
    /\ userOps' = userOps + 1
    /\ useMockData' = ~useMockData
    /\ connected' = FALSE
    /\ priceHistory' = <<>>
    /\ signalHistory' = <<>>
    /\ depsChanged' = TRUE
    /\ UNCHANGED <<mounted, selectedStock, timeframe, signal, trades, profit,
                   profitPercent, stockData, nonHoldLog>>
    /\ UNCHANGED feedVars
    /\ UNCHANGED harnessVars

\* AppendTrade that puts the new trade first, [newTrade, ...prev]
PrependTrade(prev, newTrade) == <<newTrade>> \o prev

\* the updater of setTrades, [...prev, newTrade]
AppendTrade(prev, newTrade) == Append(prev, newTrade)

\* the state the onMessage callback sets
messageVars == <<signal, signalHistory, trades, profit, profitPercent, priceHistory,
                 stockData, depsChanged, nonHoldLog>>

\* the onMessage callback of a subscription whose closure holds the trade log
\* closureTrades; setters of an unmounted component do nothing
onMessage(closureTrades, data, sig) ==
    IF ~mounted THEN UNCHANGED messageVars
    ELSE
    /\ stockData' = data
    /\ priceHistory' = LastN(Append(priceHistory,
                                    [price |-> data.currentPrice, timestamp |-> now]),
                             HistoryCap)
    /\ nonHoldLog' = IF sig.type \in {"BUY", "SELL"}
                     THEN Append(nonHoldLog, [signal |-> sig, data |-> data])
                     ELSE nonHoldLog
    /\ IF sig # NoSignal
       THEN /\ signal' = sig
            /\ signalHistory' = Append(signalHistory, sig)
            /\ IF Executes(sig)
               THEN LET newTrade == NewTrade(sig, data, now)
                        out == calculateProfit(Append(closureTrades, newTrade),
                                               data.currentPrice, initialInvestment)
                    IN  /\ trades' = AppendTrade(trades, newTrade)
                        /\ profit' = out.profit
                        /\ profitPercent' = out.profitPercent
                        /\ depsChanged' = TRUE
               ELSE UNCHANGED <<trades, profit, profitPercent, depsChanged>>
       ELSE /\ UNCHANGED <<signal, signalHistory, trades, depsChanged>>
            /\ IF Len(closureTrades) > 0
               THEN LET out == calculateProfit(closureTrades, data.currentPrice,
                                               initialInvestment)
                    IN  /\ profit' = out.profit
                        /\ profitPercent' = out.profitPercent
               ELSE UNCHANGED <<profit, profitPercent>>

\* the subscription a setup function returns; the callbacks close over the
\* trade log of the render that ran the effect
NewSub ==
    [mock |-> useMockData, symbol |-> selectedStock, timeframe |-> timeframe,
     trades |-> trades,
     phase |-> IF useMockData THEN "waiting" ELSE "connecting",
     fireAt |-> IF useMockData THEN now + ConnectDelay ELSE 0,
     lastSignal |-> NoSignal, lastSignalTime |-> Undefined,
     cancelled |-> FALSE]

\* the timer state after clearInterval(interval): the interval stops if it was set
ClearInterval(phase) == IF phase = "running" THEN "cleared" ELSE phase

\* the cleanup function of a subscription: clearInterval(interval) for the
\* simulated feed, socket.close() for the socket
Cancel(s) ==
    IF s.mock
    THEN [s EXCEPT !.cancelled = TRUE, !.phase = ClearInterval(@)]
    ELSE [s EXCEPT !.cancelled = TRUE,
                   !.phase = IF @ \in {"connecting", "open"} THEN "closing" ELSE @]

\* the effect re-runs after a render in which a dependency changed: the cleanup
\* of the previous run (which calls onDisconnect for the simulated feed), then setupFn
Effect ==
    /\ mounted
    /\ depsChanged
    /\ selectedStock # NULL
    /\ Len(subs) < MaxSubs
    /\ subs' = Append(IF cleanup = 0 THEN subs ELSE [subs EXCEPT ![cleanup] = Cancel(@)],
                      NewSub)
    /\ cleanup' = Len(subs) + 1
    /\ connected' = IF cleanup # 0 /\ subs[cleanup].mock THEN FALSE ELSE connected
    /\ depsChanged' = FALSE
    /\ UNCHANGED <<now, delivered, mounted, selectedStock, timeframe, useMockData, signal,
                   signalHistory, trades, profit, profitPercent, priceHistory, stockData,
                   userOps, nonHoldLog>>
    /\ UNCHANGED harnessVars

\* the component is disposed: React runs the cleanup of the effect
Unmount ==
    /\ mounted
    /\ userOps < MaxUserOps
    /\ userOps' = userOps + 1
    /\ mounted' = FALSE
    /\ subs' = IF cleanup = 0 THEN subs ELSE [subs EXCEPT ![cleanup] = Cancel(@)]
    /\ cleanup' = 0
    /\ UNCHANGED <<now, delivered, selectedStock, timeframe, useMockData, connected>>
    /\ UNCHANGED messageVars
    /\ UNCHANGED harnessVars

\* what a feed callback leaves alone
feedFrame == <<now, cleanup, mounted, selectedStock, timeframe, useMockData, userOps>>

\* the setTimeout callback of setupMockWebSocket: onConnect, the initial
\* message, then setInterval
MockConnect(i) ==
    /\ subs[i].mock
    /\ subs[i].phase = "waiting"
    /\ subs[i].fireAt = now
    /\ delivered < MaxDelivered
    /\ delivered' = delivered + 1
    /\ connected' = IF mounted THEN TRUE ELSE connected
    /\ onMessage(subs[i].trades, [currentPrice |-> PriceAt(delivered + 1)], NoSignal)
    /\ subs' = [subs EXCEPT ![i].phase = "running",
                            ![i].fireAt = now + updateFrequency(subs[i].timeframe)]
    /\ UNCHANGED feedFrame
    /\ UNCHANGED harnessVars

\* the setInterval callback of setupMockWebSocket
MockInterval(i) ==
    /\ subs[i].mock
    /\ subs[i].phase = "running"
    /\ subs[i].fireAt = now
    /\ delivered < MaxDelivered
    /\ delivered' = delivered + 1
    /\ \E random \in Randoms :
          LET data == [currentPrice |-> PriceAt(delivered + 1)]
              sig == generateSignal(data, subs[i].lastSignal, subs[i].lastSignalTime,
                                    random, now)
          IN  /\ onMessage(subs[i].trades, data, sig)
              /\ subs' = [subs EXCEPT
                    ![i].fireAt = now + updateFrequency(subs[i].timeframe),
                    ![i].lastSignal = Remembered(sig, @),
                    ![i].lastSignalTime = RememberedTime(sig, @)]
    /\ UNCHANGED connected
    /\ UNCHANGED feedFrame
    /\ UNCHANGED harnessVars

\* socket.onopen
SocketOpen(i) ==
    /\ ~subs[i].mock
    /\ subs[i].phase = "connecting"
    /\ subs' = [subs EXCEPT ![i].phase = "open"]
    /\ connected' = IF mounted THEN TRUE ELSE connected
    /\ UNCHANGED delivered
    /\ UNCHANGED messageVars
    /\ UNCHANGED feedFrame
    /\ UNCHANGED harnessVars

\* the signals the server may send with a tick: none, or one of any kind
ServerSignals(data) ==
    {NoSignal} \cup
    [type : {"BUY", "SELL", "HOLD"}, price : {data.currentPrice}, timestamp : {now}]

\* socket.onmessage with a payload that parses; the server sends a socket at
\* most one message per unit of time
SocketMessage(i) ==
    /\ ~subs[i].mock
    /\ subs[i].phase = "open"
    /\ subs[i].fireAt <= now
    /\ delivered < MaxDelivered
    /\ delivered' = delivered + 1
    /\ LET data == [currentPrice |-> PriceAt(delivered + 1)]
       IN  \E sig \in ServerSignals(data) : onMessage(subs[i].trades, data, sig)
    /\ subs' = [subs EXCEPT ![i].fireAt = now + 1]
    /\ UNCHANGED connected
    /\ UNCHANGED feedFrame
    /\ UNCHANGED harnessVars

\* socket.onmessage that hands the previous tick to onMessage when the payload
\* does not parse
SocketMalformedDelivers(i) ==
    /\ ~subs[i].mock
    /\ subs[i].phase = "open"
    /\ subs[i].fireAt <= now
    /\ onMessage(subs[i].trades, stockData, NoSignal)
    /\ subs' = [subs EXCEPT ![i].fireAt = now + 1]
    /\ UNCHANGED <<delivered, connected>>
    /\ UNCHANGED feedFrame
    /\ UNCHANGED harnessVars

\* socket.onmessage with a payload that JSON.parse rejects: the catch block
\* calls onError, which shows a toast and sets no state; onMessage is not called
SocketMalformed(i) ==
    /\ ~subs[i].mock
    /\ subs[i].phase = "open"
    /\ subs[i].fireAt <= now
    /\ subs' = [subs EXCEPT ![i].fireAt = now + 1]
    /\ UNCHANGED <<delivered, connected>>
    /\ UNCHANGED messageVars
    /\ UNCHANGED feedFrame
    /\ UNCHANGED harnessVars

\* socket.onerror, after which the browser closes the socket
SocketError(i) ==
    /\ ~subs[i].mock
    /\ subs[i].phase \in {"connecting", "open"}
    /\ subs' = [subs EXCEPT ![i].phase = "closing"]
    /\ UNCHANGED <<delivered, connected>>
    /\ UNCHANGED messageVars
    /\ UNCHANGED feedFrame
    /\ UNCHANGED harnessVars

\* socket.onclose
SocketClose(i) ==
    /\ ~subs[i].mock
    /\ subs[i].phase \in {"open", "closing"}
    /\ subs' = [subs EXCEPT ![i].phase = "closed"]
    /\ connected' = IF mounted THEN FALSE ELSE connected
    /\ UNCHANGED delivered
    /\ UNCHANGED messageVars
    /\ UNCHANGED feedFrame
    /\ UNCHANGED harnessVars

\* a timer of the simulated feed is pending
Scheduled(s) == s.mock /\ s.phase \in {"waiting", "running"}

\* time passes while no timer is due and no render is pending
AdvanceTime ==
    /\ now < MaxTime
    /\ mounted => ~depsChanged
    /\ \A i \in 1..Len(subs) : Scheduled(subs[i]) => subs[i].fireAt > now
    /\ now' = now + 1
    /\ UNCHANGED <<subs, cleanup, delivered, mounted, selectedStock, timeframe,
                   useMockData, connected, userOps>>
    /\ UNCHANGED messageVars
    /\ UNCHANGED harnessVars

Next ==
    \/ \E symbol \in Stocks : handleStockSelect(symbol)
    \/ \E newTimeframe \in Timeframes : handleTimeframeSelect(newTimeframe)
    \/ toggleDataSource
    \/ Unmount
    \/ Effect
    \/ \E i \in 1..Len(subs) : MockConnect(i)
    \/ \E i \in 1..Len(subs) : MockInterval(i)
    \/ \E i \in 1..Len(subs) : SocketOpen(i)
    \/ \E i \in 1..Len(subs) : SocketMessage(i)
    \/ \E i \in 1..Len(subs) : SocketMalformed(i)
    \/ \E i \in 1..Len(subs) : SocketError(i)
    \/ \E i \in 1..Len(subs) : SocketClose(i)
    \/ AdvanceTime

Spec == Init /\ [][Next]_vars

-----------------------------------------------------------------------------
(* The ledger on its own: calculateProfit applied to every trade log of at   *)
(* most MaxLogLen trades, at every current price                             *)

LedgerTrades ==
    [type : {"BUY", "SELL"}, price : LedgerPrices, timestamp : {0}, quantity : Quantities]

RECURSIVE SeqsUpTo(_, _)
SeqsUpTo(S, n) ==
    IF n = 0 THEN {<<>>}
    ELSE LET shorter == SeqsUpTo(S, n - 1)
         IN  shorter \cup {Append(s, x) : s \in {t \in shorter : Len(t) = n - 1}, x \in S}

LedgerInit ==
    /\ now = 0
    /\ mounted = TRUE
    /\ selectedStock = NULL
    /\ timeframe = "5m"
    /\ useMockData = TRUE
    /\ connected = FALSE
    /\ signal = NoSignal
    /\ signalHistory = <<>>
    /\ trades = <<>>
    /\ profit = N(0)
    /\ profitPercent = N(0)
    /\ initialInvestment = 10000
    /\ priceHistory = <<>>
    /\ stockData = NoStockData
    /\ depsChanged = FALSE
    /\ cleanup = 0
    /\ subs = <<>>
    /\ userOps = 0
    /\ delivered = 0
    /\ nonHoldLog = <<>>
    /\ call \in [tradeList : SeqsUpTo(LedgerTrades, MaxLogLen), currentPrice : LedgerPrices,
                 done : {FALSE}, locals : {LedgerStart}]

\* calculateProfit(tradeList, currentPrice): the replay, then setProfit and
\* setProfitPercent
LedgerCall ==
    /\ ~call.done
    /\ LET out == calculateProfit(call.tradeList, call.currentPrice, initialInvestment)
       IN  /\ profit' = out.profit
           /\ profitPercent' = out.profitPercent
    /\ call' = [call EXCEPT !.done = TRUE, !.locals = Replay(call.tradeList)]
    /\ UNCHANGED <<now, mounted, selectedStock, timeframe, useMockData, connected, signal,
                   signalHistory, trades, initialInvestment, priceHistory, stockData,
                   depsChanged, cleanup, subs, userOps, delivered, nonHoldLog>>

LedgerNext == LedgerCall

LedgerSpec == LedgerInit /\ [][LedgerNext]_vars

-----------------------------------------------------------------------------
(* Claims about the ledger *)

Prefix(s, k) == SubSeq(s, 1, k)

OnlyBuys(tradeList) == \A k \in 1..Len(tradeList) : tradeList[k].type = "BUY"

RECURSIVE SumQuantity(_)
SumQuantity(tradeList) ==
    IF tradeList = <<>> THEN 0
    ELSE tradeList[1].quantity + SumQuantity(Tail(tradeList))

RECURSIVE SumCost(_)
SumCost(tradeList) ==
    IF tradeList = <<>> THEN 0
    ELSE tradeList[1].quantity * tradeList[1].price + SumCost(Tail(tradeList))

\* C9: for a trade log of BUY trades only (at least one), the replay ends with
\* shareCount = sum(qi) and averageEntryPrice = sum(qi*pi)/sum(qi)
C9_BuyOnlyAverage ==
    (call.done /\ call.tradeList # <<>> /\ OnlyBuys(call.tradeList)) =>
        /\ call.locals.position = SumQuantity(call.tradeList)
        /\ call.locals.averageEntryPrice =
               Norm(SumCost(call.tradeList), SumQuantity(call.tradeList))

\* a replayed log of three BUY trades of different sizes at different prices
C9_Witness ==
    /\ call.done
    /\ Len(call.tradeList) = 3
    /\ OnlyBuys(call.tradeList)
    /\ call.tradeList[1].price # call.tradeList[2].price
    /\ call.tradeList[2].quantity # call.tradeList[3].quantity
    /\ call.locals.averageEntryPrice.d > 1

\* the shares held after the first k trades, counted from the log
RECURSIVE Held(_, _)
Held(tradeList, k) ==
    IF k = 0 THEN 0
    ELSE Held(tradeList, k - 1) +
         (IF tradeList[k].type = "BUY" THEN tradeList[k].quantity
          ELSE -tradeList[k].quantity)

NoOversell(tradeList) ==
    \A k \in 1..Len(tradeList) :
        tradeList[k].type = "SELL" => tradeList[k].quantity <= Held(tradeList, k - 1)

\* the sum over the SELL trades among the first k trades of
\* (sale price - averageEntryPrice at the time of the sale) * quantity
RECURSIVE RealizedSum(_, _)
RealizedSum(tradeList, k) ==
    IF k = 0 THEN N(0)
    ELSE IF tradeList[k].type = "SELL"
    THEN NAdd(RealizedSum(tradeList, k - 1),
              NMul(NSub(N(tradeList[k].price),
                        Replay(Prefix(tradeList, k - 1)).averageEntryPrice),
                   N(tradeList[k].quantity)))
    ELSE RealizedSum(tradeList, k - 1)

ExpectedProfit(tradeList, currentPrice) ==
    LET n == Len(tradeList)
        shares == Held(tradeList, n)
    IN  IF shares > 0
        THEN NAdd(RealizedSum(tradeList, n),
                  NMul(NSub(N(currentPrice), Replay(tradeList).averageEntryPrice),
                       N(shares)))
        ELSE RealizedSum(tradeList, n)

\* C10: for a trade log in which no SELL exceeds the shares held, the published
\* profit is the sum of the realized gains of the SELL trades, plus the unrealized
\* gain of the shares still held if and only if some are held; [BUY 1@100] at 110
\* gives 10 and [BUY 1@100, SELL 1@120] at 120 gives 20
C10_ProfitFormula ==
    (call.done /\ NoOversell(call.tradeList)) =>
        /\ profit = ExpectedProfit(call.tradeList, call.currentPrice)
        /\ (call.tradeList = <<Trade("BUY", 100, 0, 1)>> /\ call.currentPrice = 110)
               => profit = N(10)
        /\ (call.tradeList = <<Trade("BUY", 100, 0, 1), Trade("SELL", 120, 0, 1)>>
                /\ call.currentPrice = 120)
               => profit = N(20)

\* a replayed log that buys twice, sells part and still holds shares, with both a
\* realized and an unrealized gain
C10_Witness ==
    /\ call.done
    /\ NoOversell(call.tradeList)
    /\ Len(call.tradeList) = 3
    /\ call.tradeList[1].type = "BUY"
    /\ call.tradeList[2].type = "BUY"
    /\ call.tradeList[3].type = "SELL"
    /\ call.locals.position > 0
    /\ RealizedSum(call.tradeList, 3) # N(0)
    /\ profit # RealizedSum(call.tradeList, 3)

-----------------------------------------------------------------------------
(* The signal generator on its own: one run of the interval callback's call   *)
(* of generateSignal, for every last signal the callback can hold, every      *)
(* draw and every time up to MaxGenTime                                       *)

MaxGenTime == 7

SignalTypes == {"BUY", "SELL", "HOLD"}

\* the last signal and its timestamp as the interval callback holds them at
\* time dateNow: none, or a signal it was given at an earlier tick
HeldSignals(dateNow) ==
    {[lastSignal |-> NoSignal, lastSignalTime |-> Undefined]} \cup
    {[lastSignal |-> [type |-> type, price |-> PriceAt(t), timestamp |-> t],
      lastSignalTime |-> t] : type \in SignalTypes, t \in 1..(dateNow - 1)}

GeneratorCalls ==
    UNION {[data : {[currentPrice |-> price] : price \in LedgerPrices},
            held : HeldSignals(dateNow),
            random : Randoms,
            dateNow : {dateNow},
            done : {FALSE},
            result : {NoSignal},
            heldAfter : HeldSignals(dateNow)] : dateNow \in 1..MaxGenTime}

GeneratorInit ==
    /\ now = 0
    /\ mounted = TRUE
    /\ selectedStock = NULL
    /\ timeframe = "5m"
    /\ useMockData = TRUE
    /\ connected = FALSE
    /\ signal = NoSignal
    /\ signalHistory = <<>>
    /\ trades = <<>>
    /\ profit = N(0)
    /\ profitPercent = N(0)
    /\ initialInvestment = 10000
    /\ priceHistory = <<>>
    /\ stockData = NoStockData
    /\ depsChanged = FALSE
    /\ cleanup = 0
    /\ subs = <<>>
    /\ userOps = 0
    /\ delivered = 0
    /\ nonHoldLog = <<>>
    /\ call \in {c \in GeneratorCalls : c.heldAfter = c.held}

\* const signal = generateSignal(stockData, lastSignal, lastSignalTime), then
\* the update of lastSignal and lastSignalTime
GeneratorCall ==
    /\ ~call.done
    /\ LET sig == generateSignal(call.data, call.held.lastSignal, call.held.lastSignalTime,
                                 call.random, call.dateNow)
       IN  call' = [call EXCEPT
                      !.done = TRUE,
                      !.result = sig,
                      !.heldAfter = [lastSignal |-> Remembered(sig, call.held.lastSignal),
                                     lastSignalTime |->
                                         RememberedTime(sig, call.held.lastSignalTime)]]
    /\ UNCHANGED <<now, mounted, selectedStock, timeframe, useMockData, connected, signal,
                   signalHistory, trades, profit, profitPercent, initialInvestment,
                   priceHistory, stockData, depsChanged, cleanup, subs, userOps, delivered,
                   nonHoldLog>>

GeneratorNext == GeneratorCall

GeneratorSpec == GeneratorInit /\ [][GeneratorNext]_vars

-----------------------------------------------------------------------------
(* The ledger for other values of the initialInvestment state: calculateProfit *)
(* applied to every trade log of at most MaxLogLen trades                      *)

Investments == {10000, 0, -10000}

InvestmentInit ==
    /\ now = 0
    /\ mounted = TRUE
    /\ selectedStock = NULL
    /\ timeframe = "5m"
    /\ useMockData = TRUE
    /\ connected = FALSE
    /\ signal = NoSignal
    /\ signalHistory = <<>>
    /\ trades = <<>>
    /\ profit = N(0)
    /\ profitPercent = N(0)
    /\ initialInvestment \in Investments
    /\ priceHistory = <<>>
    /\ stockData = NoStockData
    /\ depsChanged = FALSE
    /\ cleanup = 0
    /\ subs = <<>>
    /\ userOps = 0
    /\ delivered = 0
    /\ nonHoldLog = <<>>
    /\ call \in [tradeList : SeqsUpTo(LedgerTrades, MaxLogLen), currentPrice : LedgerPrices,
                 done : {FALSE}, locals : {LedgerStart}]

InvestmentSpec == InvestmentInit /\ [][LedgerNext]_vars

-----------------------------------------------------------------------------
(* The tick history on its own: one session of a selected instrument receives *)
(* MaxTicks ticks that carry no signal, one per unit of time                  *)

MaxTicks == 101

HistoryInit ==
    /\ now = 0
    /\ mounted = TRUE
    /\ selectedStock \in Stocks
    /\ timeframe = "5m"
    /\ useMockData = TRUE
    /\ connected = TRUE
    /\ signal = NoSignal
    /\ signalHistory = <<>>
    /\ trades = <<>>
    /\ profit = N(0)
    /\ profitPercent = N(0)
    /\ initialInvestment = 10000
    /\ priceHistory = <<>>
    /\ stockData = NoStockData
    /\ depsChanged = FALSE
    /\ cleanup = 0
    /\ subs = <<>>
    /\ userOps = 0
    /\ delivered = 0
    /\ nonHoldLog = <<>>
    /\ call = NoCall

\* the feed delivers the next tick to onMessage, then a unit of time passes
HistoryTick ==
    /\ delivered < MaxTicks
    /\ delivered' = delivered + 1
    /\ onMessage(trades, [currentPrice |-> PriceAt(delivered + 1)], NoSignal)
    /\ now' = now + 1
    /\ UNCHANGED <<mounted, selectedStock, timeframe, useMockData, connected, cleanup,
                   subs, userOps>>
    /\ UNCHANGED harnessVars

HistoryNext == HistoryTick

HistorySpec == HistoryInit /\ [][HistoryNext]_vars

-----------------------------------------------------------------------------
(* Sessions that begin with an instrument already selected: the state         *)
(* handleStockSelect leaves for a first instrument                            *)

OtherStock == "MSFT"

\* the state after handleStockSelect(symbol) on the initial state, with ops
\* user operations counted
Selected(symbol, ops) ==
    /\ now = 0
    /\ mounted = TRUE
    /\ selectedStock = symbol
    /\ timeframe = "5m"
    /\ useMockData = TRUE
    /\ connected = FALSE
    /\ signal = NoSignal
    /\ signalHistory = <<>>
    /\ trades = <<>>
    /\ profit = N(0)
    /\ profitPercent = N(0)
    /\ initialInvestment = 10000
    /\ priceHistory = <<>>
    /\ stockData = NoStockData
    /\ depsChanged = TRUE
    /\ cleanup = 0
    /\ subs = <<>>
    /\ userOps = ops
    /\ delivered = 0
    /\ nonHoldLog = <<>>
    /\ call = NoCall

\* the user has selected an instrument, the same as or another than the one
\* selected next
ReselectInit == \E symbol \in Stocks \cup {OtherStock} : Selected(symbol, 1)

ReselectSpec == ReselectInit /\ [][Next]_vars

\* the user has selected another instrument and goes on with MaxUserOps operations
ResumeInit == Selected(OtherStock, 0)

ResumeSpec == ResumeInit /\ [][Next]_vars

-----------------------------------------------------------------------------
(* Claims about the session *)

Last(s) == s[Len(s)]

\* the only user operation so far is the selection of the instrument, and every
\* subscription so far is one of the simulated feed
OneMockSession ==
    /\ mounted
    /\ userOps = 1
    /\ selectedStock # NULL
    /\ \A i \in 1..Len(subs) : subs[i].mock

\* C1: once the cleanup of a simulated subscription has run, none of its timers
\* remains scheduled and it delivers no onConnect and no onMessage
C1_CancelStopsFeed ==
    [][\A i \in 1..Len(subs) :
          (subs[i].mock /\ subs[i].cancelled) =>
              /\ ~Scheduled(subs[i])
              /\ ~MockConnect(i)
              /\ ~MockInterval(i)]_vars

\* C2: in a session whose instrument and timeframe do not change, two
\* consecutive signals of the signal history differ in kind
C2_ConsecutiveSignalsDiffer ==
    OneMockSession =>
        \A k \in 1..(Len(signalHistory) - 1) :
            signalHistory[k].type # signalHistory[k + 1].type

\* C3: in a session whose instrument and timeframe do not change, two
\* consecutive signals of the signal history are at least 5 seconds apart
C3_ConsecutiveSignalsApart ==
    OneMockSession =>
        \A k \in 1..(Len(signalHistory) - 1) :
            signalHistory[k + 1].timestamp - signalHistory[k].timestamp >= RateLimit

\* C4: while the only user operation is the selection of the instrument, ticks
\* leave the session streaming: the first subscription is never cancelled or
\* replaced, and once it has connected the status stays connected
C4_TickKeepsSubscription ==
    OneMockSession =>
        /\ Len(subs) <= 1
        /\ \A i \in 1..Len(subs) :
              /\ ~subs[i].cancelled
              /\ subs[i].phase = "running" => connected

\* C5: the trade log is, in order, the non-HOLD signals delivered since the last
\* selection of an instrument: one trade each, of the signal's kind, at the
\* price of the tick that carried it, of quantity 1
C5_TradePerNonHoldSignal ==
    /\ Len(trades) = Len(nonHoldLog)
    /\ \A k \in 1..Len(trades) :
          /\ trades[k].type = nonHoldLog[k].signal.type
          /\ trades[k].price = nonHoldLog[k].data.currentPrice
          /\ trades[k].quantity = 1

\* two signals of different kinds were delivered and traded
C5_Witness ==
    /\ Len(trades) = 2
    /\ trades[1].type # trades[2].type
    /\ trades[1].price # trades[2].price
    /\ Len(nonHoldLog) = 2

\* a tick was handled by the mounted component
TickHandled == delivered' = delivered + 1 /\ mounted

\* the tick handled carried no signal, or a HOLD signal
CarriedNoTrade ==
    \/ signalHistory' = signalHistory
    \/ /\ signalHistory' = Append(signalHistory, signal')
       /\ signal'.type = "HOLD"

\* C6: handling a tick that carries a HOLD signal or no signal leaves the trade
\* log unchanged
C6_HoldMakesNoTrade ==
    [][(TickHandled /\ CarriedNoTrade) => trades' = trades]_vars

\* a HOLD signal was delivered to a session that has made a trade
C6_Witness ==
    /\ mounted
    /\ trades # <<>>
    /\ signalHistory # <<>>
    /\ Last(signalHistory).type = "HOLD"
    /\ signal.type = "HOLD"
    /\ signal.timestamp > Last(trades).timestamp

\* C7: the share count of the replay of the session's trade log is never
\* negative at any step
C7_SharesNeverNegative ==
    \A k \in 0..Len(trades) : Replay(Prefix(trades, k)).position >= 0

\* C8: in the replay of the session's trade log the denominator of every
\* weighted-average update is strictly positive, and the average entry price and
\* the published profit are finite numbers
C8_LedgerWellDefined ==
    /\ \A k \in 1..Len(trades) :
          /\ trades[k].type = "BUY" =>
                 Replay(Prefix(trades, k - 1)).position + trades[k].quantity > 0
          /\ IsFinite(Replay(Prefix(trades, k)).averageEntryPrice)
    /\ IsFinite(profit)
    /\ IsFinite(profitPercent)

\* the ledger recompute of the trade log the session holds after the step, at
\* the price of the tick the step handled
LedgerOfSession == calculateProfit(trades', stockData'.currentPrice, initialInvestment)

\* C12: after every tick handled while the trade log is not empty, with no
\* signal, a HOLD signal or a BUY/SELL signal alike, the published profit and
\* profit percent are the ledger recompute of the session's trade log at that
\* tick's price; stated of the session in which the user does nothing after
\* selecting the instrument
C12_TickPublishesLedger ==
    [][(TickHandled /\ OneMockSession /\ trades' # <<>>) =>
          /\ profit' = LedgerOfSession.profit
          /\ profitPercent' = LedgerOfSession.profitPercent]_vars

\* the tick handled appended a trade to the trade log
TradeAppended == TickHandled /\ Len(trades') = Len(trades) + 1

\* C13: the recompute triggered by the N-th trade replays exactly the trades
\* 1..N of the trade log, also when two messages that make a trade are handled
\* one after the other before the component has rendered and subscribed again
C13_RecomputeReplaysWholeLog ==
    [][TradeAppended =>
          /\ profit' = LedgerOfSession.profit
          /\ profitPercent' = LedgerOfSession.profitPercent]_vars

\* the entry of the tick history for the k-th tick of the history harness
HistoryEntry(k) == [price |-> PriceAt(k), timestamp |-> k - 1]

\* C14: the tick history never holds more than 100 entries, and after n ticks
\* it is the most recent min(n, 100) of them in the order of delivery; after 101
\* ticks the first is gone and the other 100 remain
C14_HistoryKeepsLastHundred ==
    LET n == delivered
        m == IF n < 100 THEN n ELSE 100
    IN  /\ Len(priceHistory) <= 100
        /\ Len(priceHistory) = m
        /\ \A j \in 1..m : priceHistory[j] = HistoryEntry(n - m + j)
        /\ n = 101 => (priceHistory[1] = HistoryEntry(2) /\ priceHistory[100] = HistoryEntry(101))

\* 101 ticks were delivered and the history holds the ticks 2..101
C14_Witness ==
    /\ delivered = 101
    /\ Len(priceHistory) = 100
    /\ priceHistory[1].timestamp = 1
    /\ priceHistory[100].timestamp = 100

\* C15: selecting an instrument, in any state of the session and whether or not
\* it is the instrument already selected, leaves the trade log, the tick history
\* and the signal history empty, no last signal, and the published profit and
\* profit percent at 0
C15_SelectClearsSession ==
    [][(\E symbol \in Stocks : handleStockSelect(symbol)) =>
          /\ trades' = <<>>
          /\ priceHistory' = <<>>
          /\ signalHistory' = <<>>
          /\ signal' = NoSignal
          /\ profit' = N(0)
          /\ profitPercent' = N(0)]_vars

\* an instrument was selected in the session of another instrument that had
\* made a trade and published a profit: the session is empty, and the
\* subscription of the other instrument still holds the trade
C15_Witness ==
    /\ userOps = 2
    /\ selectedStock \in Stocks
    /\ depsChanged
    /\ trades = <<>>
    /\ priceHistory = <<>>
    /\ signalHistory = <<>>
    /\ signal = NoSignal
    /\ profit = N(0)
    /\ stockData # NoStockData
    /\ \E i \in 1..Len(subs) : subs[i].symbol = OtherStock /\ subs[i].trades # <<>>

\* a tick is handled by subscription i
TickBy(i) == TickHandled /\ (MockConnect(i) \/ MockInterval(i) \/ SocketMessage(i))

\* the step publishes a recompute: the tick carried a BUY or SELL signal, or no
\* signal while the trade log held by the handler is not empty
Recomputes(i) ==
    \/ Len(trades') = Len(trades) + 1
    \/ signalHistory' = signalHistory /\ subs[i].trades # <<>>

\* the tick history was cleared after the last tick while the trade log is not
\* empty, the status is connected and the feed has been the simulated one all
\* along: handleStockSelect empties the trade log and toggleDataSource sets the
\* status to not connected, so handleTimeframeSelect cleared it
TimeframeJustSelected ==
    /\ mounted
    /\ connected
    /\ useMockData
    /\ \A i \in 1..Len(subs) : subs[i].mock
    /\ trades # <<>>
    /\ priceHistory = <<>>

\* C16: selecting a timeframe on an active session clears the tick history and
\* the signal history and leaves the trade log unchanged, and the next recompute
\* still replays every trade made before the timeframe was selected
C16_TimeframeKeepsTrades ==
    [][/\ (\E newTimeframe \in Timeframes : handleTimeframeSelect(newTimeframe)) =>
             /\ priceHistory' = <<>>
             /\ signalHistory' = <<>>
             /\ trades' = trades
       /\ \A i \in 1..Len(subs) :
             (TimeframeJustSelected /\ TickBy(i) /\ Recomputes(i)) =>
                 /\ profit' = LedgerOfSession.profit
                 /\ profitPercent' = LedgerOfSession.profitPercent]_vars

\* subscription i is the current one, its socket is open and the status is connected
Streaming(i) ==
    /\ mounted
    /\ connected
    /\ cleanup = i
    /\ ~subs[i].mock
    /\ subs[i].phase = "open"

\* C17: when the feed reports an error while the session is streaming, after the
\* onError callback the status is not connected, and the session starts no new
\* subscription of its own
C17_ErrorDisconnects ==
    [][\A i \in 1..Len(subs) :
          (Streaming(i) /\ SocketError(i)) =>
              /\ ~connected'
              /\ Len(subs') = Len(subs)
              /\ depsChanged' = depsChanged]_vars

\* C18: a payload that fails to parse is dropped: onMessage is not called for
\* it, and the tick history, the signal history, the last signal, the trade log
\* and the published profit and profit percent are unchanged
C18_MalformedDropped ==
    [][(\E i \in 1..Len(subs) : SocketMalformed(i)) =>
          /\ delivered' = delivered
          /\ stockData' = stockData
          /\ priceHistory' = priceHistory
          /\ signalHistory' = signalHistory
          /\ signal' = signal
          /\ trades' = trades
          /\ profit' = profit
          /\ profitPercent' = profitPercent]_vars

\* the socket of the current subscription has received a payload that does not
\* parse and nothing else, in a session that holds a trade and a last signal:
\* the tick history, cleared when the data source was toggled, is still empty
C18_Witness ==
    /\ mounted
    /\ userOps = 2
    /\ ~useMockData
    /\ cleanup # 0
    /\ ~subs[cleanup].mock
    /\ subs[cleanup].phase = "open"
    /\ subs[cleanup].fireAt = now + 1
    /\ priceHistory = <<>>
    /\ trades # <<>>
    /\ signal # NoSignal

-----------------------------------------------------------------------------
(* Claims about the signal generator *)

\* the seconds since the last signal of a generator call that has one
Elapsed == call.dateNow - call.held.lastSignalTime

\* C19: generateSignal returns no signal whenever the timestamp of the last
\* signal is set and fewer than 5 seconds have passed since, for every draw and
\* every kind of last signal; the caller's last signal and its timestamp are
\* then unchanged
C19_RateLimitSuppresses ==
    (call.done /\ call.held.lastSignalTime # Undefined /\ Elapsed < 5) =>
        /\ call.result = NoSignal
        /\ call.heldAfter = call.held

\* a call 4 seconds after a SELL signal, with a draw that classifies as BUY,
\* returned no signal
C19_Witness ==
    /\ call.done
    /\ call.held.lastSignal.type = "SELL"
    /\ Elapsed = 4
    /\ call.random < 15
    /\ call.result = NoSignal
    /\ call.heldAfter = call.held

\* the rate limit lets the call through: no last signal, or one 5 seconds old or more
RateLimitAllows == call.held.lastSignalTime = Undefined \/ Elapsed >= 5

\* C20: generateSignal returns no signal whenever the kind classified equals the
\* kind of the last signal, BUY, SELL and HOLD alike and however long ago that
\* was; when the kind differs or there is no last signal, and the rate limit
\* allows, it returns a signal of the kind classified, at the tick's price
C20_RepeatSuppressed ==
    call.done =>
        /\ (call.held.lastSignal # NoSignal
              /\ Classify(call.random) = call.held.lastSignal.type)
               => call.result = NoSignal
        /\ ((call.held.lastSignal = NoSignal
               \/ Classify(call.random) # call.held.lastSignal.type)
              /\ RateLimitAllows)
               => /\ call.result # NoSignal
                  /\ call.result.type = Classify(call.random)
                  /\ call.result.price = call.data.currentPrice
                  /\ call.result.timestamp = call.dateNow

\* a call 6 seconds after a HOLD signal, with a draw that classifies as HOLD,
\* returned no signal
C20_Witness ==
    /\ call.done
    /\ call.held.lastSignal.type = "HOLD"
    /\ Elapsed = 6
    /\ call.random >= 30
    /\ call.result = NoSignal

-----------------------------------------------------------------------------
(* Further claims about the session *)

\* s is an initial segment of t
IsPrefix(s, t) == Len(s) <= Len(t) /\ SubSeq(t, 1, Len(s)) = s

\* C21: between two selections of an instrument the trade log only grows by
\* appending: every tick, timeframe change, data-source toggle, connect,
\* disconnect and error leaves the trades it holds in place and in order, so
\* the log before a step is a prefix of the log after it
C21_TradeLogAppendOnly ==
    [][~(\E symbol \in Stocks : handleStockSelect(symbol)) => IsPrefix(trades, trades')]_vars

\* the log holds two trades and the tick history only the tick of the second:
\* the history was cleared between them, by a timeframe change or a toggle,
\* and the first trade is still in place
C21_Witness ==
    /\ mounted
    /\ Len(trades) = 2
    /\ trades[1].timestamp < trades[2].timestamp
    /\ Len(priceHistory) = 1
    /\ priceHistory[1].timestamp = trades[2].timestamp

C23_TimeframeClearsSignal ==
    [][(\E newTimeframe \in Timeframes : handleTimeframeSelect(newTimeframe)) =>
          signal' = NoSignal]_vars

-----------------------------------------------------------------------------
(* A further claim about the signal generator *)

\* the kind the claim gives a draw, in hundredths: BUY below 0.15, SELL from
\* 0.15 and below 0.30, HOLD from 0.30
KindOfDraw(r) ==
    CASE r < 15 -> "BUY"
      [] 15 <= r /\ r < 30 -> "SELL"
      [] r >= 30 -> "HOLD"

\* C24: when neither the rate limit nor the refusal of a repeat applies, a
\* signal is emitted and its kind is determined by the draw r alone: BUY if
\* r < 0.15, SELL if 0.15 <= r < 0.30, HOLD if r >= 0.30; a draw of HOLD with no
\* last signal emits a HOLD signal
C24_KindFollowsDraw ==
    call.done =>
        /\ call.result # NoSignal => call.result.type = KindOfDraw(call.random)
        /\ (RateLimitAllows
              /\ (call.held.lastSignal = NoSignal
                    \/ call.held.lastSignal.type # KindOfDraw(call.random)))
               => call.result.type = KindOfDraw(call.random)
        /\ (call.held.lastSignal = NoSignal /\ call.random >= 30)
               => call.result.type = "HOLD"

\* a draw of exactly 0.30 with no last signal emitted a HOLD signal at the
\* tick's price
C24_Witness ==
    /\ call.done
    /\ call.random = 30
    /\ call.held.lastSignal = NoSignal
    /\ call.result.type = "HOLD"
    /\ call.result.price = call.data.currentPrice

-----------------------------------------------------------------------------
(* Claims about the last signal and the connection status *)

\* C25: whenever the signal history is not empty, the last signal of the
\* session is its final element; and whenever the session holds no last signal,
\* the signal history is empty
C25_LastSignalIsLastOfHistory ==
    /\ signalHistory # <<>> => signal = Last(signalHistory)
    /\ signal = NoSignal => signalHistory = <<>>

\* the signal history was cleared by a timeframe change or a toggle after two
\* trades, and a further signal has arrived since: it is the last signal and
\* the only element of the history
C25_Witness ==
    /\ mounted
    /\ Len(trades) = 2
    /\ Len(signalHistory) = 1
    /\ signal = signalHistory[1]
    /\ signal.timestamp > trades[1].timestamp

\* the feed of subscription s has not opened yet
NotYetOpened(s) == IF s.mock THEN s.phase = "waiting" ELSE s.phase = "connecting"

\* a callback of subscription i, cancelled and replaced, that reports a
\* connection or a disconnection
LateCallback(i) ==
    /\ mounted
    /\ cleanup # 0
    /\ i # cleanup
    /\ subs[i].cancelled
    /\ MockConnect(i) \/ SocketOpen(i) \/ SocketClose(i)

\* C26: the connection status tracks the current subscription only: an
\* onConnect or onDisconnect that arrives late from an earlier, cancelled
\* subscription does not change the status, and the status is not connected
\* while the subscription created last has not opened yet
C26_LateCallbackIgnored ==
    [][\A i \in 1..Len(subs) :
          LateCallback(i) =>
              /\ connected' = connected
              /\ NotYetOpened(subs'[cleanup]) => ~connected']_vars

====
